---- MODULE Spec2Model ----
(***************************************************************************)
(* A model of bot.py: a Telegram bot that turns free text into Google      *)
(* Calendar events and lists / deletes upcoming events.                    *)
(*                                                                         *)
(* Text is modelled as a sequence of one-character strings, so that        *)
(* lower-casing, substring search, prefix tests, splitting and the ISO     *)
(* date format are computed character by character as the code does.       *)
(***************************************************************************)
EXTENDS Integers, Sequences, FiniteSets, TLC

----------------------------------------------------------------------------
(* Text helpers: str.lower, `in`, str.startswith, str.split.               *)

UpperLetters ==
  <<"A","B","C","D","E","F","G","H","I","J","K","L","M",
    "N","O","P","Q","R","S","T","U","V","W","X","Y","Z">>

LowerLetters ==
  <<"a","b","c","d","e","f","g","h","i","j","k","l","m",
    "n","o","p","q","r","s","t","u","v","w","x","y","z">>

LowerChar(c) ==
  IF \E i \in 1..Len(UpperLetters) : UpperLetters[i] = c
  THEN LowerLetters[CHOOSE i \in 1..Len(UpperLetters) : UpperLetters[i] = c]
  ELSE c

\* str.lower()
Lower(s) == [i \in 1..Len(s) |-> LowerChar(s[i])]

\* t in s
Contains(s, t) ==
  \E i \in 0..(Len(s) - Len(t)) : SubSeq(s, i + 1, i + Len(t)) = t

\* s.startswith(p)
StartsWith(s, p) == Len(s) >= Len(p) /\ SubSeq(s, 1, Len(p)) = p

\* the least position at or after `from` where t occurs in s, 0 when none
FindFrom(s, t, from) ==
  LET hits == {i \in from..(Len(s) - Len(t) + 1) : SubSeq(s, i, i + Len(t) - 1) = t}
  IN  IF hits = {} THEN 0 ELSE CHOOSE i \in hits : \A j \in hits : i <= j

\* s.split(sep): the pieces between the non-overlapping occurrences of sep,
\* scanning left to right
RECURSIVE SplitFrom(_, _, _)
SplitFrom(s, sep, from) ==
  LET at == FindFrom(s, sep, from)
  IN  IF at = 0
      THEN <<SubSeq(s, from, Len(s))>>
      ELSE <<SubSeq(s, from, at - 1)>> \o SplitFrom(s, sep, at + Len(sep))

Split(s, sep) == SplitFrom(s, sep, 1)

----------------------------------------------------------------------------
(* datetime: fromisoformat, + timedelta(hours=1), isoformat.               *)

Digits == <<"0","1","2","3","4","5","6","7","8","9">>

IsDigit(c) == \E i \in 1..Len(Digits) : Digits[i] = c

DigitVal(c) == (CHOOSE i \in 1..Len(Digits) : Digits[i] = c) - 1

AllDigits(s) == \A i \in 1..Len(s) : IsDigit(s[i])

\* int() of a run of decimal digits
RECURSIVE ToInt(_)
ToInt(s) ==
  IF s = <<>> THEN 0
  ELSE 10 * ToInt(SubSeq(s, 1, Len(s) - 1)) + DigitVal(s[Len(s)])

IsLeap(y) == (y % 4 = 0 /\ y % 100 # 0) \/ y % 400 = 0

DaysInMonth(y, m) ==
  IF m = 2 THEN (IF IsLeap(y) THEN 29 ELSE 28)
  ELSE IF m \in {4, 6, 9, 11} THEN 30 ELSE 31

\* the time-of-day part: HH, HH:MM or HH:MM:SS (fractions of a second and
\* UTC offsets are not among the inputs the model draws)
TimeShapeOk(t) ==
  \/ Len(t) = 2 /\ AllDigits(t)
  \/ Len(t) = 5 /\ AllDigits(SubSeq(t, 1, 2)) /\ t[3] = ":"
                /\ AllDigits(SubSeq(t, 4, 5))
  \/ Len(t) = 8 /\ AllDigits(SubSeq(t, 1, 2)) /\ t[3] = ":"
                /\ AllDigits(SubSeq(t, 4, 5)) /\ t[6] = ":"
                /\ AllDigits(SubSeq(t, 7, 8))

\* the shape YYYY-MM-DD<sep>time of the whole string
IsoShapeOk(s) ==
  /\ Len(s) >= 12
  /\ AllDigits(SubSeq(s, 1, 4)) /\ s[5] = "-"
  /\ AllDigits(SubSeq(s, 6, 7)) /\ s[8] = "-"
  /\ AllDigits(SubSeq(s, 9, 10))
  /\ s[11] = "T"
  /\ TimeShapeOk(SubSeq(s, 12, Len(s)))

IsoFields(s) ==
  LET t == SubSeq(s, 12, Len(s))
  IN  [year   |-> ToInt(SubSeq(s, 1, 4)),
       month  |-> ToInt(SubSeq(s, 6, 7)),
       day    |-> ToInt(SubSeq(s, 9, 10)),
       hour   |-> ToInt(SubSeq(t, 1, 2)),
       minute |-> IF Len(t) >= 5 THEN ToInt(SubSeq(t, 4, 5)) ELSE 0,
       second |-> IF Len(t) >= 8 THEN ToInt(SubSeq(t, 7, 8)) ELSE 0]

\* the range checks of the datetime constructor
FieldsInRange(d) ==
  /\ d.year \in 1..9999
  /\ d.month \in 1..12
  /\ d.day \in 1..DaysInMonth(d.year, d.month)
  /\ d.hour \in 0..23
  /\ d.minute \in 0..59
  /\ d.second \in 0..59

\* datetime.fromisoformat(s) raises ValueError exactly when this is FALSE
IsoParses(s) == IsoShapeOk(s) /\ FieldsInRange(IsoFields(s))

\* datetime.fromisoformat(s), for a string that parses
FromIsoFormat(s) == IsoFields(s)

\* d + datetime.timedelta(hours=1), carrying into day, month and year
PlusOneHourNoCarry(d) == [d EXCEPT !.hour = (d.hour + 1) % 24]

PlusOneHour(d) ==
  IF d.hour < 23 THEN [d EXCEPT !.hour = d.hour + 1]
  ELSE IF d.day < DaysInMonth(d.year, d.month)
       THEN [d EXCEPT !.hour = 0, !.day = d.day + 1]
  ELSE IF d.month < 12
       THEN [d EXCEPT !.hour = 0, !.day = 1, !.month = d.month + 1]
  ELSE [d EXCEPT !.hour = 0, !.day = 1, !.month = 1, !.year = d.year + 1]

Pad2(n) == <<Digits[(n \div 10) + 1], Digits[(n % 10) + 1]>>

Pad4(n) == Pad2(n \div 100) \o Pad2(n % 100)

\* d.isoformat() of a naive datetime with no microseconds
IsoFormat(d) ==
  Pad4(d.year) \o <<"-">> \o Pad2(d.month) \o <<"-">> \o Pad2(d.day)
  \o <<"T">> \o Pad2(d.hour) \o <<":">> \o Pad2(d.minute) \o <<":">>
  \o Pad2(d.second)

----------------------------------------------------------------------------
(* The remote calendar (the Gateway) and the clock.                        *)

\* An instant as seconds since 2024-01-01T00:00:00, the way the calendar
\* backend orders the dateTime values it is given.
DaysBeforeYear(y) ==
  365 * (y - 1) + ((y - 1) \div 4) - ((y - 1) \div 100) + ((y - 1) \div 400)

RECURSIVE DaysBeforeMonth(_, _)
DaysBeforeMonth(y, m) ==
  IF m = 1 THEN 0 ELSE DaysBeforeMonth(y, m - 1) + DaysInMonth(y, m - 1)

Ordinal(d) == DaysBeforeYear(d.year) + DaysBeforeMonth(d.year, d.month) + d.day

ToSeconds(d) ==
  (Ordinal(d) - Ordinal([year |-> 2024, month |-> 1, day |-> 1])) * 86400
  + d.hour * 3600 + d.minute * 60 + d.second

\* datetime.datetime.now() / utcnow(): the instant of the requests
Clock ==
  [year |-> 2025, month |-> 5, day |-> 1, hour |-> 12, minute |-> 0, second |-> 0]

\* timeMin of /hapus_pilih and of confirm_delete_all: now
Now == ToSeconds(Clock)

\* timeMin of /jadwal_hari_ini: now.replace(hour=0, minute=0, second=0)
TodayStart == ToSeconds([Clock EXCEPT !.hour = 0, !.minute = 0, !.second = 0])

\* The events the calendar may hold before the bot acts. Event i of the roster:
\*   1 "Happy Birthday Sam"   upcoming     2 "Shoot"            upcoming
\*   3 "Old gig"   earlier today           4 "HAPPY BIRTHDAY SAM" upcoming
\*   5 "Wedding"              upcoming     6 "Birthday dinner"  upcoming
\*   7 an event with no summary, far ahead 8 "Past job"         yesterday
\*   9..15 "Drone fpv"        upcoming
\*   16.. "Happy birthday Ann", within the next minutes
RosterSummary(i) ==
  CASE i = 1 -> <<"H","a","p","p","y"," ","B","i","r","t","h","d","a","y"," ","S","a","m">>
    [] i = 2 -> <<"S","h","o","o","t">>
    [] i = 3 -> <<"O","l","d"," ","g","i","g">>
    [] i = 4 -> <<"H","A","P","P","Y"," ","B","I","R","T","H","D","A","Y"," ","S","A","M">>
    [] i = 5 -> <<"W","e","d","d","i","n","g">>
    [] i = 6 -> <<"B","i","r","t","h","d","a","y"," ","d","i","n","n","e","r">>
    [] i = 7 -> <<>>
    [] i = 8 -> <<"P","a","s","t"," ","j","o","b">>
    [] i >= 16 -> <<"H","a","p","p","y"," ","b","i","r","t","h","d","a","y"," ","A","n","n">>
    [] OTHER -> <<"D","r","o","n","e"," ","f","p","v">>

RosterStart(i) ==
  CASE i = 3 -> Now - 4 * 3600
    [] i = 7 -> Now + 1000 * 3600
    [] i = 8 -> Now - 24 * 3600
    [] i >= 16 -> Now + (i - 15) * 60
    [] OTHER -> Now + i * 3600 + 1800

\* A CalendarEvent as events().list() returns it: 'id', 'summary' when the
\* event has one (titled), and the start instant.
Roster(i) ==
  [id      |-> <<"e">> \o Pad2(i),
   titled  |-> i # 7,
   summary |-> RosterSummary(i),
   start   |-> RosterStart(i)]

\* the id the backend assigns to the k-th event inserted through the bot
NewId(k) == <<"n">> \o Pad2(k)

\* orderBy='startTime': ascending start
RECURSIVE SortByStart(_)
SortByStart(S) ==
  IF S = {} THEN <<>>
  ELSE LET e == CHOOSE x \in S : \A y \in S : x.start <= y.start
       IN  <<e>> \o SortByStart(S \ {e})

\* events().list(timeMin=...).execute().get('items', []): the events from
\* timeMin on, all of them when no maxResults is given
ListFrom(cal, timeMin) == SortByStart({e \in cal : e.start >= timeMin})

\* seq[:n]
Take(seq, n) == SubSeq(seq, 1, IF n < Len(seq) THEN n ELSE Len(seq))

\* maxResults=20
MaxResults == 20

\* the display cap of events[:10]
DisplayCap == 10

\* event.get('summary', '')
SummaryOrEmpty(e) == IF e.titled THEN e.summary ELSE <<>>

\* the marker of the exclusion filter
Marker == <<"h","a","p","p","y"," ","b","i","r","t","h","d","a","y">>

IsBirthdayCaseSensitive(e) == Contains(SummaryOrEmpty(e), Marker)

\* "happy birthday" in event.get('summary', '').lower()
IsBirthday(e) == Contains(Lower(SummaryOrEmpty(e)), Marker)

\* [event for event in events if "happy birthday" not in ...]
ExcludeBirthdays(events) == SelectSeq(events, LAMBDA e : ~IsBirthday(e))

ScheduleEventsFilterFirst(cal) ==
  Take(ExcludeBirthdays(ListFrom(cal, TodayStart)), MaxResults)

ScheduleEventsUnfiltered(cal) == Take(ListFrom(cal, TodayStart), MaxResults)

\* /jadwal_hari_ini: list from local midnight, 20 at most, birthdays removed
ScheduleEvents(cal) ==
  ExcludeBirthdays(Take(ListFrom(cal, TodayStart), MaxResults))

DeletableEventsFromMidnight(cal) == ScheduleEvents(cal)

\* /hapus_pilih: list from now, 20 at most, birthdays removed
DeletableEvents(cal) ==
  ExcludeBirthdays(Take(ListFrom(cal, Now), MaxResults))

BulkEventsDisplayCapped(cal) ==
  Take(ExcludeBirthdays(ListFrom(cal, Now)), DisplayCap)

\* roster events the calendar holds at the start (SpecTwo, SpecRefetch)
TwoEvents == 5

\* the upcoming events of the calendar SpecRefetch starts with, whatever the
\* calendar holds now
BulkEventsAtRequest(cal) ==
  ExcludeBirthdays(ListFrom({Roster(i) : i \in 1..TwoEvents}, Now))

\* confirm_delete_all: list from now with no maxResults, birthdays removed
BulkEvents(cal) == ExcludeBirthdays(ListFrom(cal, Now))

----------------------------------------------------------------------------
(* The texts the bot sends.                                                *)

TextStart == "Halo! Saya bot penjadwalan Anda."
TextSearching == "Mencari jadwal..."
TextNothingFound == "Tidak ada jadwal mendatang yang ditemukan (selain ulang tahun)."
TextSchedule == "Jadwal Anda Berikutnya:"
TextReadFailed == "Maaf, terjadi kesalahan saat mengambil jadwal."
TextProcessing == "Oke, saya proses dulu ya..."
TextMissingDateTime == "Maaf, saya tidak bisa menentukan tanggal atau waktu."
TextMissingTitle == "Maaf, saya tidak bisa menentukan judul acara dari permintaan Anda."
TextSaved == "Berhasil! Jadwal telah ditambahkan."
TextSaveFailed == "Maaf, terjadi kesalahan saat menyimpan ke kalender."
TextNothingToDelete == "Tidak ada jadwal mendatang untuk dihapus (selain ulang tahun)."
TextChoose == "Pilih jadwal yang ingin Anda hapus:"
TextWarning == "PERINGATAN! Anda yakin ingin menghapus SEMUA jadwal mendatang (selain ulang tahun)?"
TextDeleted == "Jadwal berhasil dihapus."
TextDeleteFailed == "Gagal menghapus jadwal."
TextWorking == "Sedang memproses, mohon tunggu..."
TextDone == "Selesai! {count} jadwal mendatang telah dihapus."
TextCancelled == "Aksi dibatalkan."

\* callback_data of the inline buttons
DeletePrefix == <<"d","e","l","e","t","e","_","e","v","e","n","t","_">>

ConfirmData ==
  <<"c","o","n","f","i","r","m","_","d","e","l","e","t","e","_","a","l","l">>

CancelData == <<"c","a","n","c","e","l","_","d","e","l","e","t","e">>

----------------------------------------------------------------------------
(* The field bag parse_schedule_with_ai returns (schedule_data): a dict    *)
(* over the keys below. A key the dict lacks is modelled by the value      *)
(* Absent, which is also what dict.get returns for it (None).              *)

Absent == <<"<absent>">>

Keys == {"judul", "judul_acara", "tanggal", "waktu", "lokasi", "kategori"}

\* key in schedule_data
Has(bag, k) == bag[k] # Absent

\* the truth value of dict.get(k): None and '' are false
Truthy(v) == v # Absent /\ v # <<>>

\* not schedule_data: the empty dict
IsEmptyBag(bag) == \A k \in Keys : ~Has(bag, k)

\* not schedule_data or 'tanggal' not in schedule_data or 'waktu' not in ...
LacksDateTimeDateOnly(bag) == IsEmptyBag(bag) \/ ~Has(bag, "tanggal")

LacksDateTime(bag) ==
  IsEmptyBag(bag) \/ ~Has(bag, "tanggal") \/ ~Has(bag, "waktu")

ResolveTitlePrimaryOnly(bag) == bag["judul"]

\* schedule_data.get('judul') or schedule_data.get('judul_acara')
ResolveTitle(bag) ==
  IF Truthy(bag["judul"]) THEN bag["judul"] ELSE bag["judul_acara"]

\* f"{schedule_data['tanggal']}T{schedule_data['waktu']}"
StartString(bag) == bag["tanggal"] \o <<"T">> \o bag["waktu"]

\* schedule_data.get('lokasi', '')
LocationOf(bag) == IF Has(bag, "lokasi") THEN bag["lokasi"] ELSE <<>>

DefaultKategori == <<"L","a","i","n","n","y","a">>

KategoriLabel == <<"K","a","t","e","g","o","r","i",":"," ">>

\* schedule_data.get('kategori', 'Lainnya')
KategoriOf(bag) == IF Has(bag, "kategori") THEN bag["kategori"] ELSE DefaultKategori

\* urllib.parse.quote_plus on the characters the locations drawn here use:
\* a space becomes "+", a comma is percent-encoded, letters and digits stay
RECURSIVE QuotePlus(_)
QuotePlus(s) ==
  IF s = <<>> THEN <<>>
  ELSE (CASE Head(s) = " " -> <<"+">>
          [] Head(s) = "," -> <<"%","2","C">>
          [] OTHER -> <<Head(s)>>) \o QuotePlus(Tail(s))

MapsUrl ==
  <<"h","t","t","p","s",":","/","/","w","w","w",".","g","o","o","g","l","e",
    ".","c","o","m","/","m","a","p","s","/","s","e","a","r","c","h","/","?",
    "a","p","i","=","1","&","q","u","e","r","y","=">>

\* "\n\n<pin> Buka Lokasi di Peta: ", the pin emoji as one element
MapsLabel ==
  <<"\n","\n","<pin>"," ","B","u","k","a"," ","L","o","k","a","s","i"," ",
    "d","i"," ","P","e","t","a",":"," ">>

\* description: the category, then the map link when there is a location
DescriptionOf(bag) ==
  KategoriLabel \o KategoriOf(bag)
  \o (IF LocationOf(bag) # <<>>
      THEN MapsLabel \o MapsUrl \o QuotePlus(LocationOf(bag))
      ELSE <<>>)

EndTimeOf(start) == PlusOneHour(start)

\* the body handed to events().insert()
EventBody(bag) ==
  LET start_time_obj == FromIsoFormat(StartString(bag))
      end_time_obj == EndTimeOf(start_time_obj)
  IN  [summary     |-> ResolveTitle(bag),
       location    |-> LocationOf(bag),
       description |-> DescriptionOf(bag),
       start       |-> [dateTime |-> IsoFormat(start_time_obj),
                        timeZone |-> "Asia/Jakarta"],
       end         |-> [dateTime |-> IsoFormat(end_time_obj),
                        timeZone |-> "Asia/Jakarta"]]

\* the event the backend stores for an inserted body
StoredEvent(body, k) ==
  [id      |-> NewId(k),
   titled  |-> TRUE,
   summary |-> body.summary,
   start   |-> ToSeconds(FromIsoFormat(body.start.dateTime))]

----------------------------------------------------------------------------
(* Bounds of the model.                                                    *)

\* users of the bot
NumUsers == 2

\* roster events the calendar may hold at the start (Spec)
NumEvents == 4

\* roster events the calendar holds at the start (SpecBig)
BigEvents == 15

\* roster events the calendar holds at the start (SpecLong)
LongEvents == 28

\* messages with an inline keyboard the bot has sent
MaxMsgs == 2

\* messages with an inline keyboard the bot has sent (Spec)
SpecMsgs == 1

\* updates waiting in the bot's update queue
MaxQueue == 2

\* events inserted through the bot
MaxInserts == 1

\* deletions the backend refuses within one handler run
MaxFail == 1

\* button_handler runs dispatched side by side (SpecConcurrent)
MaxTasks == 2

Users == 1..NumUsers

\* a private chat per user, and one group chat with every user in it; a chat
\* is named by its members
Chats == {{u} : u \in Users} \cup {Users}

----------------------------------------------------------------------------
(* State.                                                                  *)

VARIABLES
  calendar,   \* the ids of the events the remote calendar holds
  created,    \* the events the backend stored for the bot's inserts, in order
  msgs,       \* the bot's messages that carry (or carried) an inline keyboard
  inflight,   \* updates sent to the bot and not handled yet, oldest first
  last,       \* what the most recent handler run did
  tasks       \* the button_handler runs dispatched side by side, in order

vars == <<calendar, created, msgs, inflight, last, tasks>>

NoBag == [k \in Keys |-> Absent]

\* the record of a handler run:
\*   handler  the handler that ran          branch  the callback branch taken
\*   by, msg  who pressed which message     input   the field bag handled
\*   calls    the Gateway list/insert/delete calls made, in order
\*   replies  the texts sent or edited in, in order
\*   shown    the events rendered or offered
\*   raised   an exception left the handler
\*   count    the number the completion text reports
Run(handler) ==
  [handler |-> handler, branch |-> "none", by |-> 0, msg |-> 0, input |-> NoBag,
   calls |-> <<>>, replies |-> <<>>, shown |-> <<>>, raised |-> FALSE,
   count |-> 0]

\* an event that came into the calendar from elsewhere under an id of its
\* own: the backend's ids are opaque strings to the bot
Imported(id) ==
  [id      |-> id,
   titled  |-> TRUE,
   summary |-> <<"I","m","p","o","r","t","e","d">>,
   start   |-> Now + 7200 + 60 * Len(id)]

\* the event an id names: a roster event ("e.."), the k-th event the bot
\* inserted ("n.."), or an imported event
EventOf(id) ==
  IF Head(id) = "e" THEN Roster(ToInt(Tail(id)))
  ELSE IF Head(id) = "n" THEN created[ToInt(Tail(id))]
  ELSE Imported(id)

\* the events the calendar holds
Events == {EventOf(id) : id \in calendar}

IdsOf(events) == [i \in 1..Len(events) |-> events[i].id]

Range(seq) == {seq[i] : i \in 1..Len(seq)}

\* the sets of at most k elements of S
RECURSIVE UpTo(_, _)
UpTo(S, k) ==
  IF k = 0 THEN {{}}
  ELSE LET smaller == UpTo(S, k - 1)
       IN  smaller \cup {F \cup {x} : F \in smaller, x \in S}

ListCall(timeMin, ok) == [op |-> "list", arg |-> timeMin, ok |-> ok]

InsertCall(body, ok) == [op |-> "insert", arg |-> body, ok |-> ok]

DeleteCall(id, ok) == [op |-> "delete", arg |-> id, ok |-> ok]

----------------------------------------------------------------------------
(* /start                                                                  *)

start_command ==
  /\ inflight = <<>>
  /\ last' = [Run("start_command") EXCEPT !.replies = <<TextStart>>]
  /\ UNCHANGED <<calendar, created, msgs, inflight, tasks>>

----------------------------------------------------------------------------
(* /jadwal_hari_ini                                                        *)

get_schedule_command(svcOk, listOk) ==
  LET events == ScheduleEvents(Events)
      page == Take(events, DisplayCap)
      \* event['summary'] raises KeyError for an event with no summary
      renders == \A i \in 1..Len(page) : page[i].titled
      replies ==
        IF ~svcOk THEN <<TextReadFailed>>
        ELSE IF ~listOk THEN <<TextSearching, TextReadFailed>>
        ELSE IF events = <<>> THEN <<TextSearching, TextNothingFound>>
        ELSE IF ~renders THEN <<TextSearching, TextReadFailed>>
        ELSE <<TextSearching, TextSchedule>>
  IN  /\ inflight = <<>>
      /\ last' = [Run("get_schedule_command") EXCEPT
                    !.calls = IF svcOk THEN <<ListCall(TodayStart, listOk)>> ELSE <<>>,
                    !.replies = replies,
                    !.shown = IF svcOk /\ listOk /\ renders THEN IdsOf(page) ELSE <<>>]
      /\ UNCHANGED <<calendar, created, msgs, inflight, tasks>>

----------------------------------------------------------------------------
(* A text message: handle_message                                          *)

TextUpdate(bag) ==
  [kind |-> "message", from |-> 0, msg |-> 0, data |-> <<>>, fields |-> bag]

CallbackUpdate(u, m, data) ==
  [kind |-> "callback", from |-> u, msg |-> m, data |-> data, fields |-> NoBag]

\* a user sends free text; fields is what the extractor will make of it
SendText(bag) ==
  /\ Len(inflight) < MaxQueue
  /\ inflight' = Append(inflight, TextUpdate(bag))
  /\ UNCHANGED <<calendar, created, msgs, last, tasks>>

\* sendOk: the confirmation text (parse_mode='Markdown') is accepted by
\* Telegram; when it is refused the except branch answers instead
handle_message(svcOk, insertOk, sendOk) ==
  /\ inflight # <<>>
  /\ Head(inflight).kind = "message"
  /\ LET schedule_data == Head(inflight).fields
         judul_acara == ResolveTitle(schedule_data)
         run == [Run("handle_message") EXCEPT !.input = schedule_data]
         parses == IsoParses(StartString(schedule_data))
         event == EventBody(schedule_data)
     IN  IF LacksDateTime(schedule_data)
         THEN /\ last' = [run EXCEPT !.replies = <<TextProcessing, TextMissingDateTime>>]
              /\ UNCHANGED <<calendar, created>>
         ELSE IF ~Truthy(judul_acara)
         THEN /\ last' = [run EXCEPT !.replies = <<TextProcessing, TextMissingTitle>>]
              /\ UNCHANGED <<calendar, created>>
         ELSE IF ~svcOk \/ ~parses
         THEN /\ last' = [run EXCEPT !.replies = <<TextProcessing, TextSaveFailed>>]
              /\ UNCHANGED <<calendar, created>>
         ELSE IF ~insertOk
         THEN /\ last' = [run EXCEPT !.calls = <<InsertCall(event, FALSE)>>,
                                     !.replies = <<TextProcessing, TextSaveFailed>>]
              /\ UNCHANGED <<calendar, created>>
         ELSE /\ Len(created) < MaxInserts
              /\ last' = [run EXCEPT
                   !.calls = <<InsertCall(event, TRUE)>>,
                   !.replies = <<TextProcessing,
                                 IF sendOk THEN TextSaved ELSE TextSaveFailed>>]
              /\ created' = Append(created, StoredEvent(event, Len(created) + 1))
              /\ calendar' = calendar \cup {NewId(Len(created) + 1)}
  /\ inflight' = Tail(inflight)
  /\ UNCHANGED <<msgs, tasks>>

----------------------------------------------------------------------------
(* /hapus_pilih and /hapus_semua                                           *)

\* a message the bot sends with an inline keyboard; requester (who sent the
\* command) and runs (the bulk deletions run from its buttons) are history
\* the bot itself does not keep
KeyboardMessage(c, u, text, keyboard) ==
  [chat |-> c, requester |-> u, text |-> text, keyboard |-> keyboard, runs |-> 0]

\* InlineKeyboardButton(callback_data=f"delete_event_{event_id}")
DeleteData(id) == DeletePrefix \o id

delete_selective_command(u, c, svcOk, listOk) ==
  LET events == DeletableEvents(Events)
      page == Take(events, DisplayCap)
      \* event['summary'] raises KeyError for an event with no summary
      renders == \A i \in 1..Len(page) : page[i].titled
      run == [Run("delete_selective_command") EXCEPT !.by = u]
  IN  /\ u \in c
      /\ inflight = <<>>
      /\ IF ~svcOk
         THEN /\ last' = [run EXCEPT !.raised = TRUE]
              /\ UNCHANGED msgs
         ELSE IF ~listOk
         THEN /\ last' = [run EXCEPT !.calls = <<ListCall(Now, FALSE)>>,
                                     !.raised = TRUE]
              /\ UNCHANGED msgs
         ELSE IF events = <<>>
         THEN /\ last' = [run EXCEPT !.calls = <<ListCall(Now, TRUE)>>,
                                     !.replies = <<TextNothingToDelete>>]
              /\ UNCHANGED msgs
         ELSE IF ~renders
         THEN /\ last' = [run EXCEPT !.calls = <<ListCall(Now, TRUE)>>,
                                     !.raised = TRUE]
              /\ UNCHANGED msgs
         ELSE /\ Len(msgs) < MaxMsgs
              /\ msgs' = Append(msgs,
                   KeyboardMessage(c, u, TextChoose,
                     [i \in 1..Len(page) |-> DeleteData(page[i].id)]))
              /\ last' = [run EXCEPT !.calls = <<ListCall(Now, TRUE)>>,
                                     !.replies = <<TextChoose>>,
                                     !.shown = IdsOf(page),
                                     !.msg = Len(msgs) + 1]
      /\ UNCHANGED <<calendar, created, inflight, tasks>>

delete_all_command(u, c) ==
  /\ u \in c
  /\ inflight = <<>>
  /\ Len(msgs) < MaxMsgs
  /\ msgs' = Append(msgs,
       KeyboardMessage(c, u, TextWarning, <<ConfirmData, CancelData>>))
  /\ last' = [Run("delete_all_command") EXCEPT
                !.by = u, !.replies = <<TextWarning>>, !.msg = Len(msgs) + 1]
  /\ UNCHANGED <<calendar, created, inflight, tasks>>

----------------------------------------------------------------------------
(* Inline buttons: the press, and button_handler                           *)

\* a member of the chat presses a button the message shows; the callback
\* query joins the update queue
Press(u, m, b) ==
  /\ m \in 1..Len(msgs)
  /\ u \in msgs[m].chat
  /\ b \in 1..Len(msgs[m].keyboard)
  /\ Len(inflight) < MaxQueue
  /\ inflight' = Append(inflight, CallbackUpdate(u, m, msgs[m].keyboard[b]))
  /\ UNCHANGED <<calendar, created, msgs, last, tasks>>

\* query.edit_message_text(text=...): the text replaces the message and,
\* no reply_markup being given, the inline keyboard goes
EditMessageText(m, text) ==
  [msgs EXCEPT ![m].text = text, ![m].keyboard = <<>>]

\* query.data.split("delete_event_")[1]
EventIdOf(data) == Split(data, DeletePrefix)[2]

DeleteIgnoresMissing(cal, id, fail) == id \notin fail

\* service.events().delete(eventId=id).execute() goes through: the calendar
\* holds the event and the backend does not refuse the call
DeleteSucceeds(cal, id, fail) == id \in cal /\ id \notin fail

DeleteCallsStopAtFailure(events, fail) ==
  LET bad == {i \in 1..Len(events) : events[i].id \in fail}
      n == IF bad = {} THEN Len(events)
           ELSE CHOOSE i \in bad : \A j \in bad : i <= j
  IN  [i \in 1..n |-> DeleteCall(events[i].id, events[i].id \notin fail)]

\* the delete loop of confirm_delete_all over events: one call per event, in
\* order; a refused call is logged and the loop goes on
DeleteCalls(events, fail) ==
  [i \in 1..Len(events) |-> DeleteCall(events[i].id, events[i].id \notin fail)]

\* count += 1 after each delete that did not raise
CountDeleted(calls) == Cardinality({i \in 1..Len(calls) : calls[i].ok})

Succeeded(calls) == {c \in Range(calls) : c.op = "delete" /\ c.ok}

button_handler(svcOk, listOk, fail) ==
  /\ inflight # <<>>
  /\ Head(inflight).kind = "callback"
  /\ LET query == Head(inflight)
         m == query.msg
         run == [Run("button_handler") EXCEPT !.by = query.from, !.msg = m]
     IN  IF ~svcOk
         THEN \* get_calendar_service() raises before the dispatch
              /\ last' = [run EXCEPT !.raised = TRUE]
              /\ UNCHANGED <<calendar, msgs>>
         ELSE IF StartsWith(query.data, DeletePrefix)
         THEN LET event_id == EventIdOf(query.data)
                  ok == DeleteSucceeds(calendar, event_id, fail)
              IN  /\ calendar' = IF ok THEN calendar \ {event_id}
                                 ELSE calendar
                  /\ msgs' = EditMessageText(m,
                               IF ok THEN TextDeleted ELSE TextDeleteFailed)
                  /\ last' = [run EXCEPT
                       !.branch = "delete_event",
                       !.calls = <<DeleteCall(event_id, ok)>>,
                       !.replies = <<IF ok THEN TextDeleted ELSE TextDeleteFailed>>]
         ELSE IF query.data = ConfirmData
         THEN IF ~listOk
              THEN /\ msgs' = EditMessageText(m, TextWorking)
                   /\ last' = [run EXCEPT
                        !.branch = "confirm_delete_all",
                        !.calls = <<ListCall(Now, FALSE)>>,
                        !.replies = <<TextWorking>>,
                        !.raised = TRUE]
                   /\ UNCHANGED calendar
              ELSE LET events == BulkEvents(Events)
                       deletes == DeleteCalls(events, fail)
                       gone == {c.arg : c \in Succeeded(deletes)}
                   IN  /\ calendar' = calendar \ gone
                       /\ msgs' = [EditMessageText(m, TextDone) EXCEPT
                                     ![m].runs = @ + 1]
                       /\ last' = [run EXCEPT
                            !.branch = "confirm_delete_all",
                            !.calls = <<ListCall(Now, TRUE)>> \o deletes,
                            !.replies = <<TextWorking, TextDone>>,
                            !.count = CountDeleted(deletes)]
         ELSE IF query.data = CancelData
         THEN /\ msgs' = EditMessageText(m, TextCancelled)
              /\ last' = [run EXCEPT !.branch = "cancel_delete",
                                     !.replies = <<TextCancelled>>]
              /\ UNCHANGED calendar
         ELSE /\ last' = run
              /\ UNCHANGED <<calendar, msgs>>
  /\ inflight' = Tail(inflight)
  /\ UNCHANGED <<created, tasks>>

----------------------------------------------------------------------------
(* button_handler dispatched side by side: each callback query gets a run  *)
(* of its own, and a run gives way to the others only where it awaits.     *)
(* What lies between two awaits, the blocking calls to the calendar        *)
(* included, is one step.                                                  *)

\* a run of button_handler for a callback query:
\*   pc       "answer" before await query.answer(), "service" after it,
\*            "bulk" after the edit to "Sedang memproses...", then "done",
\*            or "raised" when an exception left the handler
\*   counted  the events this run deleted
\*   count    the deletions it reported
\*   final    the text of its last edit
Task(query) ==
  [query |-> query, pc |-> "answer", counted |-> {}, count |-> 0, final |-> ""]

Settled == {"done", "raised"}

\* the application takes the next callback query and starts its handler
StartTask ==
  /\ inflight # <<>>
  /\ Head(inflight).kind = "callback"
  /\ Len(tasks) < MaxTasks
  /\ tasks' = Append(tasks, Task(Head(inflight)))
  /\ inflight' = Tail(inflight)
  /\ UNCHANGED <<calendar, created, msgs, last>>

\* await query.answer()
Answer(t) ==
  /\ t \in 1..Len(tasks)
  /\ tasks[t].pc = "answer"
  /\ tasks' = [tasks EXCEPT ![t].pc = "service"]
  /\ UNCHANGED <<calendar, created, msgs, inflight, last>>

\* from get_calendar_service() to the next await: the whole of a single
\* deletion or of a cancel, or the first edit of a confirmed delete-all
Dispatch(t, svcOk, fail) ==
  /\ t \in 1..Len(tasks)
  /\ tasks[t].pc = "service"
  /\ LET query == tasks[t].query
         m == query.msg
     IN  IF ~svcOk
         THEN /\ tasks' = [tasks EXCEPT ![t].pc = "raised"]
              /\ UNCHANGED <<calendar, msgs>>
         ELSE IF StartsWith(query.data, DeletePrefix)
         THEN LET event_id == EventIdOf(query.data)
                  ok == DeleteSucceeds(calendar, event_id, fail)
                  text == IF ok THEN TextDeleted ELSE TextDeleteFailed
              IN  /\ calendar' = IF ok THEN calendar \ {event_id} ELSE calendar
                  /\ msgs' = EditMessageText(m, text)
                  /\ tasks' = [tasks EXCEPT
                       ![t].pc = "done",
                       ![t].counted = IF ok THEN {event_id} ELSE {},
                       ![t].count = IF ok THEN 1 ELSE 0,
                       ![t].final = text]
         ELSE IF query.data = ConfirmData
         THEN /\ msgs' = EditMessageText(m, TextWorking)
              /\ tasks' = [tasks EXCEPT ![t].pc = "bulk"]
              /\ UNCHANGED calendar
         ELSE IF query.data = CancelData
         THEN /\ msgs' = EditMessageText(m, TextCancelled)
              /\ tasks' = [tasks EXCEPT ![t].pc = "done",
                                        ![t].final = TextCancelled]
              /\ UNCHANGED calendar
         ELSE /\ tasks' = [tasks EXCEPT ![t].pc = "done"]
              /\ UNCHANGED <<calendar, msgs>>
  /\ UNCHANGED <<created, inflight, last>>

\* the rest of a confirmed delete-all: the list call, the delete loop and
\* the edit to the completion text
Bulk(t, listOk, fail) ==
  /\ t \in 1..Len(tasks)
  /\ tasks[t].pc = "bulk"
  /\ LET m == tasks[t].query.msg
     IN  IF ~listOk
         THEN /\ tasks' = [tasks EXCEPT ![t].pc = "raised"]
              /\ UNCHANGED <<calendar, msgs>>
         ELSE LET events == BulkEvents(Events)
                  deletes == DeleteCalls(events, fail)
                  gone == {c.arg : c \in Succeeded(deletes)}
              IN  /\ calendar' = calendar \ gone
                  /\ msgs' = [EditMessageText(m, TextDone) EXCEPT
                                ![m].runs = @ + 1]
                  /\ tasks' = [tasks EXCEPT
                       ![t].pc = "done",
                       ![t].counted = gone,
                       ![t].count = CountDeleted(deletes),
                       ![t].final = TextDone]
  /\ UNCHANGED <<created, inflight, last>>

----------------------------------------------------------------------------
(* The field bags drawn as extractor results.                              *)

Bag(judul, judul_acara, tanggal, waktu, lokasi, kategori) ==
  [judul |-> judul, judul_acara |-> judul_acara, tanggal |-> tanggal,
   waktu |-> waktu, lokasi |-> lokasi, kategori |-> kategori]

Shoot == <<"S","h","o","o","t">>

Trip == <<"T","r","i","p">>

HappyBirthdayMom == <<"H","a","p","p","y"," ","b","i","r","t","h","d","a","y"," ","M","o","m">>

May1 == <<"2","0","2","5","-","0","5","-","0","1">>

Dec31 == <<"2","0","2","5","-","1","2","-","3","1">>

Feb30 == <<"2","0","2","5","-","0","2","-","3","0">>

May1Short == <<"2","0","2","5","-","5","-","1">>

T140000 == <<"1","4",":","0","0",":","0","0">>

T233000 == <<"2","3",":","3","0",":","0","0">>

T1400 == <<"1","4",":","0","0">>

T250000 == <<"2","5",":","0","0",":","0","0">>

T2pm == <<"2","p","m">>

KotaTua == <<"K","o","t","a"," ","T","u","a">>

Drone == <<"d","r","o","n","e">>

Titles == {Absent, <<>>, Shoot}

FallbackTitles == {Absent, <<>>, Trip}

Dates == {Absent, May1, Dec31, Feb30, May1Short}

Times == {Absent, T140000, T233000, T1400, T250000, T2pm}

Locations == {Absent, <<>>, KotaTua}

Categories == {Absent, Drone}

\* what the ids of imported events are made of
IdPieces ==
  {<<>>, <<"1">>, <<"_">>, <<"d","e","l","e","t","e","_">>, DeletePrefix,
   ConfirmData, CancelData}

\* ids of imported events (SpecRound)
ImportedIds == {<<"x">> \o a \o b : a \in IdPieces, b \in IdPieces}

\* every bag over the values above (SpecCreate)
Bags ==
  {Bag(j, ja, d, t, l, k) :
     j \in Titles, ja \in FallbackTitles, d \in Dates, t \in Times,
     l \in Locations, k \in Categories}

\* a complete request
ShootBag == Bag(Shoot, Absent, May1, T140000, Absent, Absent)

\* the bags of Spec: a complete request, a request for a birthday entry and
\* a request with no time
FewBags ==
  {Bag(Shoot, Absent, May1, T140000, Absent, Absent),
   Bag(Absent, HappyBirthdayMom, May1, T233000, KotaTua, Drone),
   Bag(Shoot, Absent, May1, Absent, Absent, Absent)}

----------------------------------------------------------------------------
(* Specifications.                                                         *)

RosterEvents(n) == {Roster(i).id : i \in 1..n}

Quiet ==
  /\ created = <<>>
  /\ msgs = <<>>
  /\ inflight = <<>>
  /\ last = Run("none")
  /\ tasks = <<>>

\* Spec: the bot in front of a calendar holding the first roster events
Init ==
  /\ calendar = RosterEvents(NumEvents)
  /\ Quiet

Next ==
  \/ start_command
  \/ \E svcOk \in BOOLEAN, listOk \in BOOLEAN : get_schedule_command(svcOk, listOk)
  \/ \E bag \in FewBags : SendText(bag)
  \/ \E svcOk \in BOOLEAN, insertOk \in BOOLEAN, sendOk \in BOOLEAN :
        handle_message(svcOk, insertOk, sendOk)
  \/ \E c \in Chats, u \in Users, svcOk \in BOOLEAN, listOk \in BOOLEAN :
        delete_selective_command(u, c, svcOk, listOk) /\ Len(msgs') <= SpecMsgs
  \/ \E c \in Chats, u \in Users :
        delete_all_command(u, c) /\ Len(msgs') <= SpecMsgs
  \/ \E u \in Users, m \in 1..SpecMsgs, b \in 1..DisplayCap : Press(u, m, b)
  \/ \E svcOk \in BOOLEAN, listOk \in BOOLEAN, fail \in UpTo(calendar, MaxFail) :
        button_handler(svcOk, listOk, fail)

Spec == Init /\ [][Next]_vars

\* SpecCreate: one text message, its field bag drawn from Bags, is handled
InitCreate ==
  /\ calendar = RosterEvents(2)
  /\ created = <<>>
  /\ msgs = <<>>
  /\ inflight \in {<<TextUpdate(bag)>> : bag \in Bags}
  /\ last = Run("none")
  /\ tasks = <<>>

NextCreate ==
  \E svcOk \in BOOLEAN, insertOk \in BOOLEAN, sendOk \in BOOLEAN :
        handle_message(svcOk, insertOk, sendOk)

SpecCreate == InitCreate /\ [][NextCreate]_vars

\* SpecBig: one exchange with one user (a /jadwal_hari_ini, or one keyboard
\* message and one press of it) in front of a calendar that may hold more
\* upcoming events than the display cap
InitBig ==
  /\ calendar \in {RosterEvents(n) : n \in 0..BigEvents}
  /\ Quiet

NextBig ==
  \/ \E svcOk \in BOOLEAN, listOk \in BOOLEAN : get_schedule_command(svcOk, listOk)
  \/ \E svcOk \in BOOLEAN, listOk \in BOOLEAN :
        msgs = <<>> /\ delete_selective_command(1, {1}, svcOk, listOk)
  \/ msgs = <<>> /\ delete_all_command(1, {1})
  \/ \E b \in 1..DisplayCap : inflight = <<>> /\ Press(1, 1, b)
  \/ \E svcOk \in BOOLEAN, listOk \in BOOLEAN, fail \in UpTo(calendar, MaxFail) :
        button_handler(svcOk, listOk, fail)

SpecBig == InitBig /\ [][NextBig]_vars

\* SpecLong: /jadwal_hari_ini and /hapus_pilih with one user in front of a
\* calendar that holds more than 20 events from today on, birthday entries
\* first among the upcoming ones
InitLong ==
  /\ calendar \in {RosterEvents(n) : n \in BigEvents..LongEvents}
  /\ Quiet

NextLong ==
  \/ \E svcOk \in BOOLEAN, listOk \in BOOLEAN : get_schedule_command(svcOk, listOk)
  \/ \E svcOk \in BOOLEAN, listOk \in BOOLEAN :
        msgs = <<>> /\ delete_selective_command(1, {1}, svcOk, listOk)
  \/ \E b \in 1..DisplayCap : inflight = <<>> /\ Press(1, 1, b)
  \/ \E svcOk \in BOOLEAN, fail \in UpTo(calendar, MaxFail) :
        button_handler(svcOk, TRUE, fail)

SpecLong == InitLong /\ [][NextLong]_vars

\* SpecTwo: one user in a private chat: /hapus_pilih and /hapus_semua, up to
\* two keyboard messages in all, their buttons, and a text message that asks
\* for an event of this afternoon
InitTwo ==
  /\ calendar = RosterEvents(TwoEvents)
  /\ Quiet

NextTwo ==
  \/ \E svcOk \in BOOLEAN, listOk \in BOOLEAN :
        delete_selective_command(1, {1}, svcOk, listOk)
  \/ delete_all_command(1, {1})
  \/ SendText(ShootBag)
  \/ \E svcOk \in BOOLEAN, insertOk \in BOOLEAN, sendOk \in BOOLEAN :
        handle_message(svcOk, insertOk, sendOk)
  \/ \E m \in 1..MaxMsgs, b \in 1..DisplayCap : Press(1, m, b)
  \/ \E svcOk \in BOOLEAN, listOk \in BOOLEAN, fail \in UpTo(calendar, MaxFail) :
        button_handler(svcOk, listOk, fail)

SpecTwo == InitTwo /\ [][NextTwo]_vars

\* SpecRefetch: SpecTwo from the moment the bot has answered /hapus_semua
\* with its prompt: what follows happens between the prompt and its
\* confirmation, or after it
InitRefetch ==
  /\ calendar = RosterEvents(TwoEvents)
  /\ created = <<>>
  /\ msgs = <<KeyboardMessage({1}, 1, TextWarning, <<ConfirmData, CancelData>>)>>
  /\ inflight = <<>>
  /\ last = [Run("delete_all_command") EXCEPT
               !.by = 1, !.replies = <<TextWarning>>, !.msg = 1]
  /\ tasks = <<>>

NextRefetch ==
  \/ delete_selective_command(1, {1}, TRUE, TRUE)
  \/ SendText(ShootBag)
  \/ \E insertOk \in BOOLEAN : handle_message(TRUE, insertOk, TRUE)
  \/ \E m \in 1..MaxMsgs, b \in 1..DisplayCap : Press(1, m, b)
  \/ \E svcOk \in BOOLEAN, listOk \in BOOLEAN, fail \in UpTo(calendar, MaxFail) :
        button_handler(svcOk, listOk, fail)

SpecRefetch == InitRefetch /\ [][NextRefetch]_vars

\* SpecRound: /hapus_pilih and its buttons with one user in front of a
\* calendar of imported events: the event "x" and one more
InitRound ==
  /\ calendar \in {{<<"x">>, id} : id \in ImportedIds}
  /\ Quiet

NextRound ==
  \/ \E svcOk \in BOOLEAN, listOk \in BOOLEAN :
        msgs = <<>> /\ delete_selective_command(1, {1}, svcOk, listOk)
  \/ \E b \in 1..DisplayCap : inflight = <<>> /\ Press(1, 1, b)
  \/ \E svcOk \in BOOLEAN, fail \in UpTo(calendar, MaxFail) :
        button_handler(svcOk, TRUE, fail)

SpecRound == InitRound /\ [][NextRound]_vars

\* SpecConcurrent: one user, /hapus_pilih and /hapus_semua, then the presses
\* of their buttons handled side by side; a run that can go on does go on
InitConcurrent ==
  /\ calendar = RosterEvents(TwoEvents)
  /\ Quiet

NextConcurrent ==
  \/ tasks = <<>> /\ delete_selective_command(1, {1}, TRUE, TRUE)
  \/ tasks = <<>> /\ delete_all_command(1, {1})
  \/ \E m \in 1..MaxMsgs, b \in 1..DisplayCap : Press(1, m, b)
  \/ StartTask
  \/ \E t \in 1..MaxTasks : Answer(t)
  \/ \E t \in 1..MaxTasks, svcOk \in BOOLEAN, fail \in UpTo(calendar, MaxFail) :
        Dispatch(t, svcOk, fail)
  \/ \E t \in 1..MaxTasks, listOk \in BOOLEAN, fail \in UpTo(calendar, MaxFail) :
        Bulk(t, listOk, fail)

Progress(t) ==
  \/ Answer(t)
  \/ \E svcOk \in BOOLEAN, fail \in UpTo(calendar, MaxFail) : Dispatch(t, svcOk, fail)
  \/ \E listOk \in BOOLEAN, fail \in UpTo(calendar, MaxFail) : Bulk(t, listOk, fail)

SpecConcurrent ==
  /\ InitConcurrent
  /\ [][NextConcurrent]_vars
  /\ \A t \in 1..MaxTasks : WF_vars(Progress(t))

----------------------------------------------------------------------------
(* Properties.                                                             *)

\* a summary holds the marker in some letter casing, compared letter by letter
HasMarkerAnyCase(summary) ==
  \E i \in 0..(Len(summary) - Len(Marker)) :
    \A j \in 1..Len(Marker) : LowerChar(summary[i + j]) = Marker[j]

IsBirthdayId(id) == HasMarkerAnyCase(SummaryOrEmpty(EventOf(id)))

\* the upcoming events of the calendar that are no birthday entries
EligibleIds == {id \in calendar : EventOf(id).start >= Now /\ ~IsBirthdayId(id)}

\* the step is button_handler taking a callback with this data off the queue
Handles(data) ==
  /\ inflight # <<>>
  /\ Head(inflight).kind = "callback"
  /\ Head(inflight).data = data
  /\ inflight' = Tail(inflight)

DeleteIndices(calls) == {i \in 1..Len(calls) : calls[i].op = "delete"}

DeleteArgs(calls) == {calls[i].arg : i \in DeleteIndices(calls)}

\* the last run was a bulk deletion that got its list of events
BulkRan(run) == run.branch = "confirm_delete_all" /\ ~run.raised

\* C1: a confirmed delete-all that gets its list attempts a delete for every
\* upcoming non-birthday event the calendar holds, one call each, however
\* many there are: the display cap of 10 does not limit it.
C1_BulkDeleteFullScope ==
  [][(Handles(ConfirmData) /\ BulkRan(last'))
       => /\ DeleteArgs(last'.calls) = EligibleIds
          /\ Cardinality(DeleteIndices(last'.calls)) = Cardinality(EligibleIds)]_vars

\* a bulk deletion that attempted more events than the display cap
C1_Witness ==
  BulkRan(last) /\ Cardinality(DeleteArgs(last.calls)) > DisplayCap

\* C2: in a confirmed delete-all a refused delete does not end the batch:
\* every upcoming non-birthday event is attempted, the refused ones included,
\* the count reported is the number of events that left the calendar, and the
\* run ends with the completion text, not with an error.
C2_PartialFailureTolerated ==
  [][(Handles(ConfirmData) /\ BulkRan(last'))
       => /\ \A id \in EligibleIds : id \in DeleteArgs(last'.calls)
          /\ last'.count = Cardinality(calendar \ calendar')
          /\ last'.count =
               Cardinality({i \in DeleteIndices(last'.calls) : last'.calls[i].ok})
          /\ last'.replies = <<TextWorking, TextDone>>
          /\ msgs'[last'.msg].text = TextDone]_vars

\* a bulk deletion over three events where one delete was refused, and not
\* the last one, and two went through
C2_Witness ==
  /\ BulkRan(last)
  /\ Cardinality(DeleteIndices(last.calls)) = 3
  /\ last.count = 2
  /\ \E i \in DeleteIndices(last.calls) :
       ~last.calls[i].ok /\ i < Len(last.calls)

\* the event a delete button of a keyboard names
ButtonTargets(keyboard) ==
  {SubSeq(keyboard[b], Len(DeletePrefix) + 1, Len(keyboard[b])) :
     b \in {x \in 1..Len(keyboard) : StartsWith(keyboard[x], DeletePrefix)}}

\* C3: an event whose summary holds the birthday marker in any letter casing
\* is never rendered by /jadwal_hari_ini, never offered as a deletion target
\* by /hapus_pilih, and never passed to a delete by a confirmed delete-all.
C3_BirthdaysNeverSurfaced ==
  /\ last.handler \in {"get_schedule_command", "delete_selective_command"}
       => \A i \in 1..Len(last.shown) : ~IsBirthdayId(last.shown[i])
  /\ \A m \in 1..Len(msgs) :
       \A id \in ButtonTargets(msgs[m].keyboard) : ~IsBirthdayId(id)
  /\ last.branch = "confirm_delete_all"
       => \A id \in DeleteArgs(last.calls) : ~IsBirthdayId(id)

\* a bulk deletion removed events while "Happy Birthday Sam" and
\* "HAPPY BIRTHDAY SAM" were upcoming, and both are still in the calendar
C3_Witness ==
  /\ BulkRan(last)
  /\ last.count > 0
  /\ {Roster(1).id, Roster(4).id} \subseteq calendar
  /\ Roster(1).start >= Now /\ Roster(4).start >= Now
  /\ IsBirthdayId(Roster(1).id) /\ IsBirthdayId(Roster(4).id)

\* C4: a pending delete-all confirmation is consumed exactly once: a bulk
\* deletion runs only from a prompt that /hapus_semua created and that no
\* earlier callback has resolved (no bulk deletion was completed from it and
\* it was not cancelled), so one request leads to at most one bulk deletion,
\* and a second confirm, or a confirm after a cancel, does not delete again.
C4_ConfirmationConsumedOnce ==
  [][(Handles(ConfirmData) /\ BulkRan(last'))
       => /\ msgs[last'.msg].requester \in Users
          /\ msgs[last'.msg].text \notin {TextDone, TextCancelled}
          /\ msgs'[last'.msg].runs <= 1]_vars

\* C5: handling the cancel callback discards the pending confirmation,
\* reports the cancellation, makes no Gateway list/insert/delete call and
\* leaves the calendar as it was.
C5_CancelDiscardsAndReports ==
  [][Handles(CancelData)
       => /\ msgs'[last'.msg].keyboard = <<>>
          /\ msgs'[last'.msg].text = TextCancelled
          /\ last'.replies = <<TextCancelled>>
          /\ last'.calls = <<>>
          /\ calendar' = calendar /\ created' = created]_vars

\* C6: a confirm or cancel callback resolves only the pending confirmation
\* of the user who sent it: the prompt it acts on was requested by that
\* user, and no bulk deletion runs on a request another user made.
C6_ConfirmationScopedToRequester ==
  last.branch \in {"confirm_delete_all", "cancel_delete"}
    => last.by = msgs[last.msg].requester

\* the bag of the text message the last run handled
Handled == last.handler = "handle_message"

InsertIndices(calls) == {i \in 1..Len(calls) : calls[i].op = "insert"}

\* C7: for every field bag that lacks the date key or the time key, whatever
\* else it holds, the text handler answers with the missing-date/time
\* message, builds no event and issues no insert.
C7_MissingDateTimeRejected ==
  (Handled /\ (~Has(last.input, "tanggal") \/ ~Has(last.input, "waktu")))
    => /\ last.replies = <<TextProcessing, TextMissingDateTime>>
       /\ last.calls = <<>>
       /\ created = <<>>

\* a bag with a title and a date but no time was rejected
C7_Witness ==
  /\ Handled
  /\ Truthy(last.input["judul"])
  /\ Has(last.input, "tanggal")
  /\ ~Has(last.input, "waktu")
  /\ last.replies = <<TextProcessing, TextMissingDateTime>>

\* a date of the shape YYYY-MM-DD, a time of the shape HH:MM:SS
IsYmd(d) ==
  /\ Len(d) = 10
  /\ \A i \in {1, 2, 3, 4, 6, 7, 9, 10} : IsDigit(d[i])
  /\ d[5] = "-" /\ d[8] = "-"

IsHms(t) ==
  /\ Len(t) = 8
  /\ \A i \in {1, 2, 4, 5, 7, 8} : IsDigit(t[i])
  /\ t[3] = ":" /\ t[6] = ":"

\* C8: no insert is issued for a field bag whose date is not a well-formed
\* YYYY-MM-DD value or whose time is not a well-formed HH:MM:SS value: the
\* request ends with the save-failure message instead.
C8_OnlyWellFormedInserted ==
  (Handled /\ Has(last.input, "tanggal") /\ Has(last.input, "waktu")
     /\ ~(IsYmd(last.input["tanggal"]) /\ IsHms(last.input["waktu"])))
    => /\ InsertIndices(last.calls) = {}
       /\ created = <<>>
       /\ last.replies # <<TextProcessing, TextSaved>>

\* the title the amended C9 expects: the primary key's value when it is
\* non-empty, else the fallback key's value when that is non-empty
NonEmptyTitle(bag) ==
  IF Has(bag, "judul") /\ bag["judul"] # <<>> THEN bag["judul"]
  ELSE IF Has(bag, "judul_acara") /\ bag["judul_acara"] # <<>>
       THEN bag["judul_acara"]
  ELSE Absent

HasDateTime(bag) == Has(bag, "tanggal") /\ Has(bag, "waktu")

\* C9 as stated: the title is the primary key's value when the key is
\* present, else the fallback key's value; with neither key present the
\* request is rejected with the missing-title message and nothing is inserted.
C9_TitleByKeyPresence ==
  (Handled /\ HasDateTime(last.input))
    => /\ \A i \in InsertIndices(last.calls) :
            last.calls[i].arg.summary =
              (IF Has(last.input, "judul") THEN last.input["judul"]
               ELSE last.input["judul_acara"])
       /\ (~Has(last.input, "judul") /\ ~Has(last.input, "judul_acara"))
            => /\ last.replies = <<TextProcessing, TextMissingTitle>>
               /\ last.calls = <<>>

\* C9 amended: the title is the primary key's value when that is present and
\* non-empty, else the fallback key's value when that is present and
\* non-empty (a title under the fallback key only is used as it is); when
\* neither holds a non-empty value the request is rejected with the
\* missing-title message, which is not the missing-date/time message, and
\* nothing is inserted.
C9_TitleByNonEmptyValue ==
  (Handled /\ HasDateTime(last.input))
    => /\ TextMissingTitle # TextMissingDateTime
       /\ IF NonEmptyTitle(last.input) = Absent
          THEN /\ last.replies = <<TextProcessing, TextMissingTitle>>
               /\ last.calls = <<>>
               /\ created = <<>>
          ELSE /\ last.replies # <<TextProcessing, TextMissingTitle>>
               /\ last.replies # <<TextProcessing, TextMissingDateTime>>
               /\ \A i \in InsertIndices(last.calls) :
                    last.calls[i].arg.summary = NonEmptyTitle(last.input)
               /\ \A k \in 1..Len(created) :
                    created[k].summary = NonEmptyTitle(last.input)

\* a bag with its title under the fallback key only became an event with
\* exactly that title
C9_Witness ==
  /\ Handled
  /\ ~Has(last.input, "judul")
  /\ last.input["judul_acara"] = Trip
  /\ last.replies = <<TextProcessing, TextSaved>>
  /\ Len(created) = 1 /\ created[1].summary = Trip

\* the text handler reported success
Saved == Handled /\ last.replies = <<TextProcessing, TextSaved>>

\* "HH", "HH:MM" or "HH:MM:SS" completed to "HH:MM:SS"
FullTime(t) ==
  t \o SubSeq(<<":","0","0",":","0","0">>, 1, 8 - Len(t))

\* C10: every successful creation issues exactly one insert; its start is
\* the extracted date and time as one instant and its end is exactly one hour
\* (3600 seconds) after the start; the location is empty when none was
\* extracted and the description names the default category when none was
\* extracted. {judul "Shoot", tanggal "2025-05-01", waktu "14:00:00"} gives
\* start 2025-05-01T14:00:00 and end 2025-05-01T15:00:00.
C10_OneInsertOneHour ==
  Saved =>
    /\ Len(last.calls) = 1 /\ last.calls[1].op = "insert" /\ last.calls[1].ok
    /\ Len(created) = 1
    /\ LET body == last.calls[1].arg
           bag == last.input
       IN  /\ body.start.dateTime =
                bag["tanggal"] \o <<"T">> \o FullTime(bag["waktu"])
           /\ IsoParses(body.end.dateTime)
           /\ ToSeconds(FromIsoFormat(body.end.dateTime))
                - ToSeconds(FromIsoFormat(body.start.dateTime)) = 3600
           /\ created[1].start = ToSeconds(FromIsoFormat(body.start.dateTime))
           /\ ~Has(bag, "lokasi") => body.location = <<>>
           /\ ~Has(bag, "kategori")
                => SubSeq(body.description, 1, 17) =
                     <<"K","a","t","e","g","o","r","i",":"," ",
                       "L","a","i","n","n","y","a">>
           /\ (~Has(bag, "kategori") /\ ~Has(bag, "lokasi"))
                => Len(body.description) = 17
           /\ (bag["tanggal"] = May1 /\ bag["waktu"] = T140000)
                => /\ body.start.dateTime =
                        <<"2","0","2","5","-","0","5","-","0","1","T",
                          "1","4",":","0","0",":","0","0">>
                   /\ body.end.dateTime =
                        <<"2","0","2","5","-","0","5","-","0","1","T",
                          "1","5",":","0","0",":","0","0">>

\* the last event of the year at 23:30 was created with neither location
\* nor category: its end falls in the next year
C10_Witness ==
  /\ Saved
  /\ last.input["tanggal"] = Dec31 /\ last.input["waktu"] = T233000
  /\ ~Has(last.input, "lokasi") /\ ~Has(last.input, "kategori")
  /\ last.calls[1].arg.end.dateTime =
       <<"2","0","2","6","-","0","1","-","0","1","T",
         "0","0",":","3","0",":","0","0">>

\* the start instant of the event an id names
StartOf(id) == EventOf(id).start

\* the events of the calendar that start at timeMin or later
FromIds(timeMin) == {id \in calendar : StartOf(id) >= timeMin}

\* the place of an event among the events of S, by ascending start
RankIn(S, id) == Cardinality({x \in S : StartOf(x) < StartOf(id)}) + 1

\* the events a list call from timeMin with maxResults=20 returns
FetchedSet(timeMin) ==
  {id \in FromIds(timeMin) : RankIn(FromIds(timeMin), id) <= MaxResults}

\* those of them that are no birthday entries
SurvivorSet(timeMin) == {id \in FetchedSet(timeMin) : ~IsBirthdayId(id)}

\* the last run was a /jadwal_hari_ini whose list call went through
ScheduleListed(run) ==
  /\ run.handler = "get_schedule_command"
  /\ Len(run.calls) = 1 /\ run.calls[1].op = "list" /\ run.calls[1].ok

\* C11: /jadwal_hari_ini makes one list call at most and no insert or delete,
\* and leaves the calendar as it was; when the listed events are none after
\* the birthday filter it answers "nothing found" and makes no further call.
C11_EmptyScheduleReported ==
  [][last'.handler = "get_schedule_command"
       => /\ calendar' = calendar /\ created' = created
          /\ Len(last'.calls) <= 1
          /\ \A i \in 1..Len(last'.calls) : last'.calls[i].op = "list"
          /\ (ScheduleListed(last') /\ SurvivorSet(TodayStart) = {})
               => last'.replies = <<TextSearching, TextNothingFound>>]_vars

\* /jadwal_hari_ini answered "nothing found" over a calendar that holds
\* events of today, all of them birthday entries
C11_Witness ==
  /\ ScheduleListed(last)
  /\ last.replies = <<TextSearching, TextNothingFound>>
  /\ FromIds(TodayStart) # {}
  /\ SurvivorSet(TodayStart) = {}

\* C12: every failure of a Gateway call, the failure to obtain the calendar
\* service included, is caught inside the handler and answered with a message
\* to the user: no handler run ends with an exception leaving it.
C12_FailuresReported ==
  /\ ~last.raised
  /\ last.handler # "none" => last.replies # <<>>

\* the first 10, by ascending start, of the non-birthday events among the
\* first 20 events from timeMin on
PresentedSet(timeMin) ==
  {id \in SurvivorSet(timeMin) : RankIn(SurvivorSet(timeMin), id) <= DisplayCap}

\* the run was a /jadwal_hari_ini that rendered its events or found none
SchedulePresented(run) ==
  /\ ScheduleListed(run)
  /\ run.replies \in {<<TextSearching, TextSchedule>>,
                      <<TextSearching, TextNothingFound>>}

\* the run was a /hapus_pilih that offered its events or found none
DeletablePresented(run) ==
  /\ run.handler = "delete_selective_command"
  /\ ~run.raised
  /\ run.replies \in {<<TextChoose>>, <<TextNothingToDelete>>}

Presented(run) == SchedulePresented(run) \/ DeletablePresented(run)

FloorOf(run) ==
  IF run.handler = "get_schedule_command" THEN TodayStart ELSE Now

\* C14: /jadwal_hari_ini and /hapus_pilih present the surviving events by
\* ascending start, 10 at most: what is presented is exactly the first
\* min(10, k) of the k events that are left of the at most 20 fetched events
\* after the birthday filter; the buttons of /hapus_pilih come in that order.
C14_FirstTenInOrder ==
  Presented(last)
    => /\ Len(last.shown) <= DisplayCap
       /\ \A i, j \in 1..Len(last.shown) :
            i < j => StartOf(last.shown[i]) < StartOf(last.shown[j])
       /\ Range(last.shown) = PresentedSet(FloorOf(last))
       /\ Len(last.shown) = Cardinality(PresentedSet(FloorOf(last)))
       /\ (last.handler = "delete_selective_command" /\ last.shown # <<>>)
            => msgs[last.msg].keyboard =
                 [b \in 1..Len(last.shown) |-> DeletePrefix \o last.shown[b]]

\* /jadwal_hari_ini rendered fewer than 10 events because the list call
\* returned 20 events, birthdays among them, while more than 10 non-birthday
\* events start today
C14_Witness ==
  /\ SchedulePresented(last)
  /\ last.shown # <<>>
  /\ Len(last.shown) < DisplayCap
  /\ Cardinality(FetchedSet(TodayStart)) = MaxResults
  /\ Cardinality({id \in FromIds(TodayStart) : ~IsBirthdayId(id)}) > DisplayCap

\* the last run's insert call went through
Inserted(run) ==
  \E i \in InsertIndices(run.calls) : run.calls[i].ok

\* C18: the text handler reports success if and only if its insert went
\* through, and sends the save-failure message only when no event of the
\* request was added to the calendar, also when a step after the insert fails.
C18_SuccessIffInserted ==
  Handled
    => /\ (last.replies = <<TextProcessing, TextSaved>>) <=> Inserted(last)
       /\ last.replies = <<TextProcessing, TextSaveFailed>>
            => (~Inserted(last) /\ created = <<>>)

\* the step is button_handler taking the press of a delete button off the
\* queue and reaching the delete branch
HandlesDelete ==
  /\ inflight # <<>>
  /\ Head(inflight).kind = "callback"
  /\ StartsWith(Head(inflight).data, DeletePrefix)
  /\ inflight' = Tail(inflight)
  /\ last'.branch = "delete_event"

\* the id the pressed delete button was built for
PressedId == SubSeq(Head(inflight).data, Len(DeletePrefix) + 1,
                    Len(Head(inflight).data))

\* C15: a single deletion makes exactly one Gateway call, a delete for the
\* id of the button, with no lookup before it and no second attempt; when it
\* goes through only that event leaves the calendar and success is reported;
\* when the id is no longer in the calendar the deletion-failure text is
\* reported and the calendar is unchanged.
C15_DeleteOneOnce ==
  [][HandlesDelete
       => /\ Len(last'.calls) = 1
          /\ last'.calls[1].op = "delete"
          /\ last'.calls[1].arg = PressedId
          /\ created' = created
          /\ PressedId \notin calendar => ~last'.calls[1].ok
          /\ IF last'.calls[1].ok
             THEN /\ calendar' = calendar \ {PressedId}
                  /\ last'.replies = <<TextDeleted>>
                  /\ msgs'[last'.msg].text = TextDeleted
             ELSE /\ calendar' = calendar
                  /\ last'.replies = <<TextDeleteFailed>>
                  /\ msgs'[last'.msg].text = TextDeleteFailed]_vars

\* a delete button was pressed for an event that a delete-all had removed
\* before: the failure text was reported
C15_Witness ==
  /\ last.branch = "delete_event"
  /\ ~last.calls[1].ok
  /\ last.calls[1].arg \notin calendar
  /\ last.replies = <<TextDeleteFailed>>
  /\ \E m \in 1..Len(msgs) : msgs[m].runs >= 1 /\ msgs[m].text = TextDone

\* a delete-all prompt still shows its two buttons
PendingPrompt(m) == msgs[m].keyboard = <<ConfirmData, CancelData>>

\* the step is handle_message taking a text message off the queue
HandlesText ==
  /\ inflight # <<>>
  /\ Head(inflight).kind = "message"
  /\ inflight' = Tail(inflight)

\* C16: while a delete-all prompt is outstanding in the chat, a text message
\* there issues no insert and adds no event, and leaves the prompt as it is.
C16_NoInsertWhilePending ==
  [][(HandlesText /\ \E m \in 1..Len(msgs) : PendingPrompt(m))
       => /\ InsertIndices(last'.calls) = {}
          /\ created' = created /\ calendar' = calendar
          /\ msgs' = msgs]_vars

\* the upcoming non-birthday events of the calendar SpecRefetch starts with:
\* the calendar at the time of the /hapus_semua prompt
EligibleAtRequest ==
  {id \in RosterEvents(TwoEvents) : StartOf(id) >= Now /\ ~IsBirthdayId(id)}

\* C17: what a confirmed delete-all attempts is decided by the calendar at
\* the time of the confirmation, not at the time of the prompt: every upcoming
\* non-birthday event the calendar then holds is attempted, the events created
\* since the prompt included, and no event that has left the calendar since
\* the prompt is attempted.
C17_FetchedAtConfirmation ==
  [][(Handles(ConfirmData) /\ BulkRan(last'))
       => /\ DeleteArgs(last'.calls) \subseteq calendar
          /\ \A id \in EligibleAtRequest \ calendar :
               id \notin DeleteArgs(last'.calls)
          /\ \A id \in EligibleIds \ EligibleAtRequest :
               id \in DeleteArgs(last'.calls)
          /\ \A id \in EligibleIds \cap EligibleAtRequest :
               id \in DeleteArgs(last'.calls)]_vars

\* the first confirmation of the prompt attempted the event created after
\* the prompt and did not attempt the event that a single deletion had
\* removed after the prompt
C17_Witness ==
  /\ BulkRan(last)
  /\ msgs[1].runs = 1
  /\ \E id \in DeleteArgs(last.calls) : id \notin RosterEvents(TwoEvents)
  /\ \E id \in EligibleAtRequest :
       /\ id \notin DeleteArgs(last.calls)
       /\ id \notin calendar
  /\ Len(msgs) = 2 /\ msgs[2].text = TextDeleted

\* the step is button_handler taking the press of a delete button off the
\* queue, the calendar service obtained
HandlesDeleteButton ==
  /\ inflight # <<>>
  /\ Head(inflight).kind = "callback"
  /\ StartsWith(Head(inflight).data, DeletePrefix)
  /\ inflight' = Tail(inflight)
  /\ ~last'.raised

\* C19: for every event /hapus_pilih offers, the press of its button is
\* handled as a single deletion, never as confirm or cancel, and the id
\* passed to the delete call is the id the button was built for, also when
\* the id itself holds the text "delete_event_".
C19_CallbackRoundTrip ==
  [][HandlesDeleteButton
       => /\ last'.branch = "delete_event"
          /\ Len(last'.calls) = 1
          /\ last'.calls[1].op = "delete"
          /\ last'.calls[1].arg = PressedId]_vars


----------------------------------------------------------------------------
(* Runs of button_handler side by side over one calendar.                  *)

RECURSIVE ReportedSum(_)
ReportedSum(n) == IF n = 0 THEN 0 ELSE tasks[n].count + ReportedSum(n - 1)

\* the events gone from the calendar since the runs began
Removed == RosterEvents(TwoEvents) \ calendar

\* no event is counted by two runs, and the counts reported so far add up
\* to the number of events removed
CountedOnce ==
  /\ \A t, u \in 1..Len(tasks) :
        t # u => tasks[t].counted \cap tasks[u].counted = {}
  /\ \A t \in 1..Len(tasks) :
        tasks[t].pc = "done" => tasks[t].count = Cardinality(tasks[t].counted)
  /\ ReportedSum(Len(tasks)) = Cardinality(Removed)

\* the run ended by editing its message to its result
Finished(t) ==
  /\ t \in 1..Len(tasks)
  /\ tasks[t].pc = "done"
  /\ tasks[t].final \in {TextDone, TextDeleted, TextDeleteFailed}
  /\ msgs[tasks[t].query.msg].text \in {TextDone, TextDeleted, TextDeleteFailed}

\* two runs are under way: two confirmed delete-alls, or a confirmed
\* delete-all and a single deletion
BothDeleting ==
  /\ Len(tasks) = 2
  /\ \E t \in 1..2 : tasks[t].query.data = ConfirmData
  /\ \A t \in 1..2 : tasks[t].query.data # CancelData

\* C20: when two presses that delete (two confirmations of delete-all, or a
\* confirmation and a single deletion) are handled side by side over one
\* calendar, in any interleaving, no event is counted as deleted by more
\* than one handler, the reported counts add up to the number of events
\* removed, and every such handler ends with its final result message.
C20_CountedOnceAndFinished ==
  /\ []CountedOnce
  /\ BothDeleting ~> (Finished(1) /\ Finished(2))

\* the counting half of C20 on its own
C20_CountingAlone == []CountedOnce

\* two runs side by side, a confirmed delete-all that counted an event and
\* a single deletion that found its event already gone
C20_Race ==
  /\ Len(tasks) = 2
  /\ \E t, u \in 1..2 :
        /\ tasks[t].final = TextDone /\ tasks[t].count >= 1
        /\ tasks[u].final = TextDeleteFailed
        /\ EventIdOf(tasks[u].query.data) \in tasks[t].counted
====
